---- MODULE Spec2Model ----
(***************************************************************************)
(* isochro: fixed-dimension vectors Vec<D, T> (src/src/vector.rs), their   *)
(* named-field views (src/src/vector/vec2.rs, vec3.rs, vec4.rs) and        *)
(* matrices Mat<R, C, T> (src/src/matrix.rs).                              *)
(*                                                                         *)
(* The element type T is instantiated with a signed two's-complement       *)
(* integer of Width bits.  A Vec<D, T> is a function 0..D-1 -> T (the      *)
(* source's indices are kept).  The outcome of a call is a record          *)
(* [kind, val]: kind "value" (the call returned val), "panic" (the call    *)
(* panicked) or "ub" (the call reached undefined behaviour).               *)
(***************************************************************************)
EXTENDS Integers, Sequences, FiniteSets, TLC

VARIABLES
    overflow_checks,  \* build profile: TRUE = overflow panics, FALSE = overflow wraps
    a,                \* the receiver Vec<D, T> (the only vector ever mutated)
    b,                \* the other operand Vec<D, T>
    res,              \* what the last call was given and what it produced
    pc,               \* "ready" | "done" | "panicked"
    nmut              \* number of mutating calls made on a

vars == <<overflow_checks, a, b, res, pc, nmut>>

-----------------------------------------------------------------------------
(* Bounds of the model *)

Width == 8        \* bits of the element type
MaxDim == 3       \* vector dimensions 1..MaxDim in the arithmetic specification
MaxMut == 2       \* mutating calls on one vector in the view specification
MaxRows == 2      \* matrix shapes 1..MaxRows x 1..MaxCols in the matrix specification
MaxCols == 2

-----------------------------------------------------------------------------
(* The element type: a Width-bit signed integer *)

IntMin == -(2 ^ (Width - 1))
IntMax == (2 ^ (Width - 1)) - 1
InRange(x) == IntMin <= x /\ x <= IntMax
Wrap(x) == ((x - IntMin) % (2 ^ Width)) + IntMin

Value(v) == [kind |-> "value", val |-> v]
Panic == [kind |-> "panic", val |-> 0]
UB == [kind |-> "ub", val |-> 0]

\* two outcomes are the same outcome
Same(x, y) == x.kind = y.kind /\ (x.kind = "value" => x.val = y.val)

\* +, - and * of the element type on the exact result x
Arith(x) ==
    IF InRange(x) THEN Value(x)
    ELSE IF overflow_checks THEN Panic
    ELSE Value(Wrap(x))

Abs(x) == IF x < 0 THEN -x ELSE x
\* integer division of the element type truncates toward zero
TruncDiv(x, y) ==
    IF (x >= 0) = (y > 0) THEN Abs(x) \div Abs(y) ELSE -(Abs(x) \div Abs(y))

elem_add(x, y) == Arith(x + y)
elem_sub(x, y) == Arith(x - y)
elem_mul(x, y) == Arith(x * y)
elem_div(x, y) ==
    IF y = 0 THEN Panic
    ELSE IF x = IntMin /\ y = -1 THEN Panic
    ELSE Value(TruncDiv(x, y))

-----------------------------------------------------------------------------
(* The closures the operators pass to the combinators, by name.            *)
(* call(f, x, y) is the element outcome of f on the pair (x, y): for an    *)
(* in-place closure, the new value of *x.                                  *)

call(f, x, y) ==
    CASE f = "add" -> elem_add(x, y)             \* T::add, |a, b| a + b
      [] f = "add_swap" -> elem_add(y, x)        \* |a, b| b + a
      [] f = "sub" -> elem_sub(x, y)             \* |a, b| a - b
      [] f = "sub_swap" -> elem_sub(y, x)        \* |a, b| b - a
      [] f = "mul" -> elem_mul(x, y)             \* T::mul, |a, b| a * b
      [] f = "div" -> elem_div(x, y)             \* T::div, |a, b| a / b
      [] f = "add_assign" -> elem_add(x, y)      \* |a, b| a.add_assign(b)
      [] f = "sub_assign" -> elem_sub(x, y)      \* |a, b| a.sub_assign(b)
      [] f = "mul_assign" -> elem_mul(x, y)      \* T::mul_assign
      [] f = "div_assign" -> elem_div(x, y)      \* T::div_assign

-----------------------------------------------------------------------------
(* Arrays and iterators.  An iterator is the sequence of the items it will *)
(* yield, in order; an item produced by a closure is an element outcome.   *)

Dim(v) == Cardinality(DOMAIN v)
Min(m, n) == IF m <= n THEN m ELSE n

into_iter(arr) == [i \in 1..Dim(arr) |-> arr[i - 1]]
\* a pairing that stops one pair early
zip_short(s, t) == [i \in 1..(Min(Len(s), Len(t)) - 1) |-> <<s[i], t[i]>>]
zip(s, t) == [i \in 1..Min(Len(s), Len(t)) |-> <<s[i], t[i]>>]
map(it, f) == [i \in 1..Len(it) |-> call(f, it[i][1], it[i][2])]

\* std::array::from_fn(|_| iter.next().unwrap_unchecked()) for an array of D
\* elements: the closure runs for index 0, 1, .., D-1; the first panicking
\* item aborts the call, an exhausted iterator is undefined behaviour.
from_fn(D, it) ==
    LET stop == {i \in 1..Min(D, Len(it)) : it[i].kind # "value"}
        first == CHOOSE i \in stop : \A j \in stop : i <= j
    IN  IF stop # {} THEN [kind |-> it[first].kind, val |-> 0]
        ELSE IF Len(it) < D THEN UB
        ELSE Value([i \in 0..(D - 1) |-> it[i + 1].val])

\* the calls of f that from_fn makes through the lazy map over pairs, in the
\* order it makes them: one call per item pulled, none after a panicking one.
\* A call is [idx, x, y]: the index being built and the two arguments of f.
from_fn_calls(D, pairs, f) ==
    LET it == map(pairs, f)
        stop == {i \in 1..Min(D, Len(it)) : it[i].kind # "value"}
        first == CHOOSE i \in stop : \A j \in stop : i <= j
        n == IF stop # {} THEN first ELSE Min(D, Len(it))
    IN  [j \in 1..n |-> [idx |-> j - 1, x |-> pairs[j][1], y |-> pairs[j][2]]]

\* [T; D]::map(g): g on every element in index order
array_map(arr, f, k) ==
    LET r == [i \in DOMAIN arr |-> call(f, arr[i], k)]
    IN  IF \E i \in DOMAIN arr : r[i].kind = "panic" THEN Panic
        ELSE Value([i \in DOMAIN arr |-> r[i].val])

\* the calls of g that [T; D]::map makes, in the order it makes them
array_map_calls(arr, f, k) ==
    LET stop == {i \in DOMAIN arr : call(f, arr[i], k).kind # "value"}
        first == CHOOSE i \in stop : \A j \in stop : i <= j
        n == IF stop # {} THEN first + 1 ELSE Dim(arr)
    IN  [j \in 1..n |-> [idx |-> j - 1, x |-> arr[j - 1], y |-> k]]

\* the loop below taken from the last element down to the first
for_iter_mut_down(self, it, f) ==
    LET r == [i \in DOMAIN self |->
                 IF i + 1 <= Len(it) THEN call(f, self[i], it[i + 1]) ELSE UB]
        stop == {i \in DOMAIN self : r[i].kind # "value"}
        last == CHOOSE i \in stop : \A j \in stop : i >= j
    IN  IF stop = {} THEN Value([i \in DOMAIN self |-> r[i].val])
        ELSE [kind |-> r[last].kind,
              val |-> [i \in DOMAIN self |-> IF i > last THEN r[i].val ELSE self[i]]]

\* for a in self.0.iter_mut() { f(a, <item i of it>) }: the receiver after the
\* loop (val) and how the loop ended (kind).  Elements before the first
\* panicking call keep their new value, the others are untouched.
for_iter_mut(self, it, f) ==
    LET r == [i \in DOMAIN self |->
                 IF i + 1 <= Len(it) THEN call(f, self[i], it[i + 1]) ELSE UB]
        stop == {i \in DOMAIN self : r[i].kind # "value"}
        first == CHOOSE i \in stop : \A j \in stop : i <= j
    IN  IF stop = {} THEN Value([i \in DOMAIN self |-> r[i].val])
        ELSE [kind |-> r[first].kind,
              val |-> [i \in DOMAIN self |-> IF i < first THEN r[i].val ELSE self[i]]]

\* the same loop, iteration by iteration from index i on: self is the receiver
\* so far and calls the calls of f made so far; b.next() is taken once per
\* iteration, before f is called.
RECURSIVE iter_mut_loop(_, _, _, _, _)
iter_mut_loop(self, it, f, i, calls) ==
    IF i >= Dim(self) THEN [kind |-> "value", val |-> self, calls |-> calls]
    ELSE IF i + 1 > Len(it) THEN [kind |-> "ub", val |-> self, calls |-> calls]
    ELSE LET o == call(f, self[i], it[i + 1])
             now == Append(calls, [idx |-> i, x |-> self[i], y |-> it[i + 1]])
         IN  IF o.kind # "value" THEN [kind |-> o.kind, val |-> self, calls |-> now]
             ELSE iter_mut_loop([self EXCEPT ![i] = o.val], it, f, i + 1, now)

-----------------------------------------------------------------------------
(* The combinators of impl Vec<D, T> *)

combine(self, other, f) ==
    from_fn(Dim(self), map(zip(into_iter(self), into_iter(other)), f))

combine_scalar(self, other, f) == array_map(self, f, other)

\* the closure given the item of other on the left
combine_ref_flipped(self, other, f) ==
    from_fn(Dim(self), map(zip(into_iter(other), into_iter(self)), f))

combine_ref(self, other, f) ==
    from_fn(Dim(self), map(zip(into_iter(self), into_iter(other)), f))

combine_scalar_ref(self, other, f) == array_map(self, f, other)

combine_both_ref(self, other, f) ==
    from_fn(Dim(self), map(zip(into_iter(self), into_iter(other)), f))

combine_assign(self, other, f) == for_iter_mut(self, into_iter(other), f)

\* the scalar moved into the first call and missing for the next
combine_assign_scalar_moved(self, other, f) == for_iter_mut(self, <<other>>, f)

combine_assign_scalar(self, other, f) ==
    for_iter_mut(self, [i \in 1..Dim(self) |-> other], f)

combine_assign_ref(self, other, f) == for_iter_mut(self, into_iter(other), f)

\* the calls of f each combinator makes, in the order it makes them
combine_calls(self, other, f) ==
    from_fn_calls(Dim(self), zip(into_iter(self), into_iter(other)), f)
combine_ref_calls(self, other, f) ==
    from_fn_calls(Dim(self), zip(into_iter(self), into_iter(other)), f)
combine_both_ref_calls(self, other, f) ==
    from_fn_calls(Dim(self), zip(into_iter(self), into_iter(other)), f)
combine_scalar_calls(self, other, f) == array_map_calls(self, f, other)
combine_scalar_ref_calls(self, other, f) == array_map_calls(self, f, other)
combine_assign_calls(self, other, f) ==
    iter_mut_loop(self, into_iter(other), f, 0, <<>>).calls
combine_assign_scalar_calls(self, other, f) ==
    iter_mut_loop(self, [i \in 1..Dim(self) |-> other], f, 0, <<>>).calls
combine_assign_ref_calls(self, other, f) ==
    iter_mut_loop(self, into_iter(other), f, 0, <<>>).calls

-----------------------------------------------------------------------------
(* The operators.  _vv: a op b, _vr: a op &b, _rv: &a op b, _rr: &a op &b  *)

\* the closure of Sub pasted into Add
add_vv_pasted(self, rhs) == combine(self, rhs, "sub")
add_vv(self, rhs) == combine(self, rhs, "add")
add_vr(self, rhs) == combine_ref(self, rhs, "add")
\* the swapped closure of Sub pasted into &a + b
add_rv_pasted(self, rhs) == combine_ref(rhs, self, "sub_swap")
add_rv(self, rhs) == combine_ref(rhs, self, "add_swap")
add_rr(self, rhs) == combine_both_ref(self, rhs, "add")

add_assign_v(self, rhs) == combine_assign(self, rhs, "add_assign")
add_assign_r(self, rhs) == combine_assign_ref(self, rhs, "add_assign")

sub_vv(self, rhs) == combine(self, rhs, "sub")
sub_vr(self, rhs) == combine_ref(self, rhs, "sub")
\* the closure without the swap
sub_rv_unswapped(self, rhs) == combine_ref(rhs, self, "sub")
sub_rv(self, rhs) == combine_ref(rhs, self, "sub_swap")
sub_rr(self, rhs) == combine_both_ref(self, rhs, "sub")

sub_assign_v(self, rhs) == combine_assign(self, rhs, "sub_assign")
\* the closure of AddAssign pasted into SubAssign
sub_assign_r_pasted(self, rhs) == combine_assign_ref(self, rhs, "add_assign")
sub_assign_r(self, rhs) == combine_assign_ref(self, rhs, "sub_assign")

mul_v(self, rhs) == combine_scalar(self, rhs, "mul")
mul_r(self, rhs) == combine_scalar_ref(self, rhs, "mul")
mul_assign(self, rhs) == combine_assign_scalar(self, rhs, "mul_assign")

div_v(self, rhs) == combine_scalar(self, rhs, "div")
\* the closure of Mul pasted into Div
div_r_pasted(self, rhs) == combine_scalar_ref(self, rhs, "mul")
div_r(self, rhs) == combine_scalar_ref(self, rhs, "div")
div_assign(self, rhs) == combine_assign_scalar(self, rhs, "div_assign")

\* Iterator::reduce(|acc, x| acc + x) from item i on, acc the sum so far
RECURSIVE reduce_from(_, _, _)
reduce_from(acc, it, i) ==
    IF acc.kind # "value" THEN acc
    ELSE IF i > Len(it) THEN acc
    ELSE IF it[i].kind # "value" THEN it[i]
    ELSE reduce_from(elem_add(acc.val, it[i].val), it, i + 1)

\* the same reduction taken from the last item down: x[n-1] + (.. + x[0])
RECURSIVE reduce_back(_, _, _)
reduce_back(acc, it, i) ==
    IF acc.kind # "value" THEN acc
    ELSE IF i < 1 THEN acc
    ELSE IF it[i].kind # "value" THEN it[i]
    ELSE reduce_back(elem_add(it[i].val, acc.val), it, i - 1)

dot_of_rfold(it) ==
    IF Len(it) = 0 THEN UB ELSE reduce_back(it[Len(it)], it, Len(it) - 1)

\* zip(..).map(|(a, b)| a * b).reduce(|acc, x| acc + x), then unwrap_unchecked
dot_of(it) == IF Len(it) = 0 THEN UB ELSE reduce_from(it[1], it, 2)

dot_vv(self, rhs) == dot_of(map(zip(into_iter(self), into_iter(rhs)), "mul"))
dot_vr(self, rhs) == dot_of(map(zip(into_iter(self), into_iter(rhs)), "mul"))
dot_rv(self, rhs) == dot_of(map(zip(into_iter(self), into_iter(rhs)), "mul"))
dot_rr(self, rhs) == dot_of(map(zip(into_iter(self), into_iter(rhs)), "mul"))

-----------------------------------------------------------------------------
(* Inputs *)

Sample == {-1, 1, IntMax}             \* element values the inputs are drawn from
SmallSample == {-1, IntMax}           \* the same, for the vectors that are mutated or stacked
Scalars == {-1, 0, 2}                 \* right-hand scalars of * and /
Vecs(D) == [0..(D - 1) -> Sample]
Splat(D, s) == [i \in 0..(D - 1) |-> s]

\* the vectors of the documentation examples: Vec3::new(1, 2, 3), Vec3::new(4, 5, 6)
DocA == [i \in 0..2 |-> i + 1]
DocB == [i \in 0..2 |-> i + 4]

\* the record of a call: the operator and its ownership form, the operands as
\* they were given (lhs, rhs, scalar k, index idx, field name), the outcome out,
\* an intermediate outcome aux, and whether a projection passed the layout
\* assertion (guard)
Rec(op, form, lhs, rhs, k, out, aux) ==
    [op |-> op, form |-> form, lhs |-> lhs, rhs |-> rhs, k |-> k,
     out |-> out, aux |-> aux, idx |-> 0, field |-> "", guard |-> FALSE]

NoRes == Rec("none", "", <<>>, <<>>, 0, Value(0), Value(0))

\* what undefined behaviour may turn into: a panic or any value of alts
Resolve(o, alts) ==
    IF o.kind = "ub" THEN {[kind |-> "panic", val |-> o.val]} \cup {Value(v) : v \in alts}
    ELSE {o}

\* a call that returns a value (or panics) and leaves the operands alone
Returns(op, form, rhs, k, o, aux) ==
    /\ res' = Rec(op, form, a, rhs, k, o, aux)
    /\ pc' = IF o.kind = "value" THEN "done" ELSE "panicked"
    /\ UNCHANGED <<overflow_checks, a, b, nmut>>

\* a call on &mut a: o.val is the receiver after the call
Mutates(op, form, rhs, k, o) ==
    /\ res' = Rec(op, form, a, rhs, k, o, Value(0))
    /\ a' = o.val
    /\ nmut' = nmut + 1
    /\ pc' = IF o.kind = "value" THEN "done" ELSE "panicked"
    /\ UNCHANGED <<overflow_checks, b>>

-----------------------------------------------------------------------------
(* The arithmetic specification: the inputs are drawn, one operator is     *)
(* applied to them.                                                        *)

InitVec ==
    /\ overflow_checks \in BOOLEAN
    /\ \/ \E D \in 1..MaxDim : a \in Vecs(D) /\ b \in Vecs(D)
       \/ a = DocA /\ b = DocB
    /\ res = NoRes
    /\ pc = "ready"
    /\ nmut = 0

Add_vv == pc = "ready" /\ \E o \in Resolve(add_vv(a, b), Vecs(Dim(a))) :
              Returns("add", "vv", b, 0, o, Value(0))
Add_vr == pc = "ready" /\ \E o \in Resolve(add_vr(a, b), Vecs(Dim(a))) :
              Returns("add", "vr", b, 0, o, Value(0))
Add_rv == pc = "ready" /\ \E o \in Resolve(add_rv(a, b), Vecs(Dim(a))) :
              Returns("add", "rv", b, 0, o, Value(0))
Add_rr == pc = "ready" /\ \E o \in Resolve(add_rr(a, b), Vecs(Dim(a))) :
              Returns("add", "rr", b, 0, o, Value(0))

Sub_vv == pc = "ready" /\ \E o \in Resolve(sub_vv(a, b), Vecs(Dim(a))) :
              Returns("sub", "vv", b, 0, o, Value(0))
Sub_vr == pc = "ready" /\ \E o \in Resolve(sub_vr(a, b), Vecs(Dim(a))) :
              Returns("sub", "vr", b, 0, o, Value(0))
Sub_rv == pc = "ready" /\ \E o \in Resolve(sub_rv(a, b), Vecs(Dim(a))) :
              Returns("sub", "rv", b, 0, o, Value(0))
Sub_rr == pc = "ready" /\ \E o \in Resolve(sub_rr(a, b), Vecs(Dim(a))) :
              Returns("sub", "rr", b, 0, o, Value(0))

AddAssign_v == pc = "ready" /\ \E o \in Resolve(add_assign_v(a, b), Vecs(Dim(a))) :
                   Mutates("add_assign", "v", b, 0, o)
AddAssign_r == pc = "ready" /\ \E o \in Resolve(add_assign_r(a, b), Vecs(Dim(a))) :
                   Mutates("add_assign", "r", b, 0, o)
SubAssign_v == pc = "ready" /\ \E o \in Resolve(sub_assign_v(a, b), Vecs(Dim(a))) :
                   Mutates("sub_assign", "v", b, 0, o)
SubAssign_r == pc = "ready" /\ \E o \in Resolve(sub_assign_r(a, b), Vecs(Dim(a))) :
                   Mutates("sub_assign", "r", b, 0, o)

Mul_v == pc = "ready" /\ \E k \in Scalars : Returns("mul", "v", <<>>, k, mul_v(a, k), Value(0))
Mul_r == pc = "ready" /\ \E k \in Scalars : Returns("mul", "r", <<>>, k, mul_r(a, k), Value(0))
MulAssign == pc = "ready" /\ \E k \in Scalars :
                 \E o \in Resolve(mul_assign(a, k), Vecs(Dim(a))) :
                     Mutates("mul_assign", "v", <<>>, k, o)

Div_v == pc = "ready" /\ \E k \in Scalars : Returns("div", "v", <<>>, k, div_v(a, k), Value(0))
Div_r == pc = "ready" /\ \E k \in Scalars : Returns("div", "r", <<>>, k, div_r(a, k), Value(0))
DivAssign == pc = "ready" /\ \E k \in Scalars :
                 \E o \in Resolve(div_assign(a, k), Vecs(Dim(a))) :
                     Mutates("div_assign", "v", <<>>, k, o)

Dot_vv == pc = "ready" /\ \E o \in Resolve(dot_vv(a, b), Sample) :
              Returns("dot", "vv", b, 0, o, Value(0))
Dot_vr == pc = "ready" /\ \E o \in Resolve(dot_vr(a, b), Sample) :
              Returns("dot", "vr", b, 0, o, Value(0))
Dot_rv == pc = "ready" /\ \E o \in Resolve(dot_rv(a, b), Sample) :
              Returns("dot", "rv", b, 0, o, Value(0))
Dot_rr == pc = "ready" /\ \E o \in Resolve(dot_rr(a, b), Sample) :
              Returns("dot", "rr", b, 0, o, Value(0))

\* the expression e2(e1): e2 is evaluated on the value of e1, unless e1 panicked
Then(o1, o2) == IF o1.kind = "value" THEN o2 ELSE o1

\* (a * k) / k and (&a * k) / k, the quotient taken of the owned product or of
\* a borrow of it
MulDiv_v == pc = "ready" /\ \E k \in Scalars :
                LET p == mul_v(a, k)
                IN  Returns("muldiv", "v", <<>>, k, Then(p, div_v(p.val, k)), p)
MulDiv_r == pc = "ready" /\ \E k \in Scalars :
                LET p == mul_r(a, k)
                IN  Returns("muldiv", "r", <<>>, k, Then(p, div_r(p.val, k)), p)

\* (a + b) + c (out) and a + (b + c) (aux), for a third vector c
ThirdVecs == {a, b} \cup {Splat(Dim(a), s) : s \in Sample}
AddAssoc == pc = "ready" /\ \E c \in ThirdVecs :
                LET ab == add_vv(a, b)
                    bc == add_vv(b, c)
                IN  /\ res' = Rec("assoc", "vv", a, b, c, Then(ab, add_vv(ab.val, c)),
                                   Then(bc, add_vv(a, bc.val)))
                    /\ pc' = "done"
                    /\ UNCHANGED <<overflow_checks, a, b, nmut>>

NextVec ==
    \/ Add_vv \/ Add_vr \/ Add_rv \/ Add_rr
    \/ AddAssign_v \/ AddAssign_r
    \/ Sub_vv \/ Sub_vr \/ Sub_rv \/ Sub_rr
    \/ SubAssign_v \/ SubAssign_r
    \/ Mul_v \/ Mul_r \/ MulAssign
    \/ Div_v \/ Div_r \/ DivAssign
    \/ Dot_vv \/ Dot_vr \/ Dot_rv \/ Dot_rr
    \/ MulDiv_v \/ MulDiv_r
    \/ AddAssoc

Spec == InitVec /\ [][NextVec]_vars

-----------------------------------------------------------------------------
(* The combinator specification: the inputs are drawn, one combinator is   *)
(* called on them with one closure.  In res, form is the closure and aux   *)
(* is [raw, calls]: how the call ended before undefined behaviour was      *)
(* resolved, and the calls of the closure in the order they were made.     *)

BinaryFns == {"sub", "mul", "div"}                        \* Fn(T, U) -> R
AssignFns == {"sub_assign", "mul_assign", "div_assign"}   \* Fn(&mut T, U)

Ran(raw, calls) == [raw |-> raw.kind, calls |-> calls]

\* a combinator that takes self or &self and returns a new vector
CombReturns(op, f, rhs, k, raw, calls) ==
    \E o \in Resolve(raw, Vecs(Dim(a))) : Returns(op, f, rhs, k, o, Ran(raw, calls))

\* a combinator on &mut self: o.val is the receiver when the call ends
CombMutates(op, f, rhs, k, raw, calls) ==
    \E o \in Resolve(raw, Vecs(Dim(a))) :
        /\ res' = Rec(op, f, a, rhs, k, o, Ran(raw, calls))
        /\ a' = o.val
        /\ nmut' = nmut + 1
        /\ pc' = IF o.kind = "value" THEN "done" ELSE "panicked"
        /\ UNCHANGED <<overflow_checks, b>>

Combine == pc = "ready" /\ \E f \in BinaryFns :
    CombReturns("combine", f, b, 0, combine(a, b, f), combine_calls(a, b, f))
CombineRef == pc = "ready" /\ \E f \in BinaryFns :
    CombReturns("combine_ref", f, b, 0, combine_ref(a, b, f), combine_ref_calls(a, b, f))
CombineBothRef == pc = "ready" /\ \E f \in BinaryFns :
    CombReturns("combine_both_ref", f, b, 0, combine_both_ref(a, b, f),
                combine_both_ref_calls(a, b, f))
CombineScalar == pc = "ready" /\ \E f \in BinaryFns, k \in Scalars :
    CombReturns("combine_scalar", f, <<>>, k, combine_scalar(a, k, f),
                combine_scalar_calls(a, k, f))
CombineScalarRef == pc = "ready" /\ \E f \in BinaryFns, k \in Scalars :
    CombReturns("combine_scalar_ref", f, <<>>, k, combine_scalar_ref(a, k, f),
                combine_scalar_ref_calls(a, k, f))
CombineAssign == pc = "ready" /\ \E f \in AssignFns :
    CombMutates("combine_assign", f, b, 0, combine_assign(a, b, f),
                combine_assign_calls(a, b, f))
CombineAssignScalar == pc = "ready" /\ \E f \in AssignFns, k \in Scalars :
    CombMutates("combine_assign_scalar", f, <<>>, k, combine_assign_scalar(a, k, f),
                combine_assign_scalar_calls(a, k, f))
CombineAssignRef == pc = "ready" /\ \E f \in AssignFns :
    CombMutates("combine_assign_ref", f, b, 0, combine_assign_ref(a, b, f),
                combine_assign_ref_calls(a, b, f))

NextComb ==
    \/ Combine \/ CombineRef \/ CombineBothRef
    \/ CombineScalar \/ CombineScalarRef
    \/ CombineAssign \/ CombineAssignScalar \/ CombineAssignRef

SpecComb == InitVec /\ [][NextComb]_vars

-----------------------------------------------------------------------------
(* Positional access: impl Index<usize> / IndexMut<usize> for Vec<D, T>    *)

\* &self.0[index]: the bounds check of the array panics past the end
index(self, i) == IF i < Dim(self) THEN Value(self[i]) ELSE Panic

\* an index past the end clamped to the last element
index_mut_clamped(self, i, x) ==
    Value([self EXCEPT ![Min(i, Dim(self) - 1)] = x])

\* *(&mut self.0[index]) = x: the receiver after the assignment
index_mut(self, i, x) ==
    IF i < Dim(self) THEN Value([self EXCEPT ![i] = x])
    ELSE [kind |-> "panic", val |-> self]

-----------------------------------------------------------------------------
(* Mat<ROW, COL, T>: a function 0..ROW-1 -> Vec<COL, T>                     *)

\* .map(|(a, b)| a - b) on the zipped rows
map_rows_pasted(it) == [i \in 1..Len(it) |-> sub_vv(it[i][1], it[i][2])]

\* .map(|(a, b)| a + b) on the zipped rows: the + of Vec<COL, T>
map_rows(it) == [i \in 1..Len(it) |-> add_vv(it[i][1], it[i][2])]

\* impl Add<Mat<M, N, U>> for Mat<M, N, T>
mat_add(self, rhs) ==
    from_fn(Dim(self), map_rows(zip(into_iter(self), into_iter(rhs))))

\* forward_ref_binop!: &A + B, A + &B and &A + &B copy the borrowed operands
\* and call A + B
mat_add_rv(self, other) == mat_add(self, other)
mat_add_vr(self, other) == mat_add(self, other)
mat_add_rr(self, other) == mat_add(self, other)

\* impl Index<(usize, usize)> for Mat: &self.0[index.0][index.1]
mat_index(self, r, c) == IF r < Dim(self) THEN index(self[r], c) ELSE Panic

-----------------------------------------------------------------------------
(* Memory.  A value of the element type is ElemSize bytes, little endian,  *)
(* two's complement.  [T; D] stores element i at byte i * ElemSize; a      *)
(* #[repr(C)] struct stores its fields in declaration order, each at the   *)
(* next multiple of its alignment.                                         *)

ElemSize == (Width + 7) \div 8
ElemAlign == ElemSize
RoundUp(n, al) == ((n + al - 1) \div al) * al

to_bytes(x) == [j \in 0..(ElemSize - 1) |-> ((x % (256 ^ ElemSize)) \div (256 ^ j)) % 256]

RECURSIVE unsigned(_, _)
unsigned(bytes, j) ==
    IF j >= ElemSize THEN 0 ELSE bytes[j] + 256 * unsigned(bytes, j + 1)

from_bytes(bytes) ==
    LET u == unsigned(bytes, 0)
    IN  IF u >= (256 ^ ElemSize) \div 2 THEN u - 256 ^ ElemSize ELSE u

\* the bytes of a Vec<D, T>, which is its array
storage(self) ==
    [o \in 0..(Dim(self) * ElemSize - 1) |-> to_bytes(self[o \div ElemSize])[o % ElemSize]]

\* the Vec<D, T> whose bytes are mem
from_storage(mem) ==
    [i \in 0..((Cardinality(DOMAIN mem) \div ElemSize) - 1) |->
        from_bytes([j \in 0..(ElemSize - 1) |-> mem[i * ElemSize + j]])]

size_of_vec(D) == D * ElemSize

\* pub struct Window2<T> { x, y }, Window3<T> { x, y, z }, Window4<T> { x, y, z, w }
FieldNames == <<"x", "y", "z", "w">>
Fields(D) == {FieldNames[j] : j \in 1..D}
FieldPos(f) == CHOOSE j \in 0..3 : FieldNames[j + 1] = f

\* x and y declared in the other order
field_offset_reordered(j) ==
    IF j = 0 THEN ElemSize ELSE IF j = 1 THEN 0 ELSE j * ElemSize

\* the offset of the field declared at position j (0 for the first)
RECURSIVE field_offset(_)
field_offset(j) ==
    IF j = 0 THEN 0 ELSE RoundUp(field_offset(j - 1) + ElemSize, ElemAlign)

size_of_window(D) == RoundUp(field_offset(D - 1) + ElemSize, ElemAlign)

\* union Transform { src: &Vec<D, T>, dst: &Window<T> }: the fields read
\* through dst from the bytes src points to
transform(self) ==
    LET mem == storage(self)
    IN  [f \in Fields(Dim(self)) |->
            from_bytes([j \in 0..(ElemSize - 1) |-> mem[field_offset(FieldPos(f)) + j]])]

\* the store goes through a window of the next wider element type
transform_mut_wide(self, f, x) ==
    LET mem == storage(self)
        off == field_offset(FieldPos(f))
        new == [j \in 0..(2 * ElemSize - 1) |-> ((x % (256 ^ (2 * ElemSize))) \div (256 ^ j)) % 256]
    IN  from_storage([o \in DOMAIN mem |->
            IF off <= o /\ o < off + 2 * ElemSize THEN new[o - off] ELSE mem[o]])

\* the Vec<D, T> after x is stored in field f through dst: &mut Window<T>
transform_mut(self, f, x) ==
    LET mem == storage(self)
        off == field_offset(FieldPos(f))
        new == to_bytes(x)
    IN  from_storage([o \in DOMAIN mem |->
            IF off <= o /\ o < off + ElemSize THEN new[o - off] ELSE mem[o]])

\* assert_eq!(size_of::<Vec<D, T>>(), size_of::<Window<T>>())
assert_same_size(D) == size_of_vec(D) = size_of_window(D)

\* Deref / DerefMut of Vec2, Vec3 and Vec4.  guard: the projection passed the
\* size assertion; out: the window (deref) or the receiver after the store
\* of x in field f (deref_mut), or a panic when the assertion fails.
deref2(self) ==
    [guard |-> TRUE,
     out |-> IF assert_same_size(2) THEN Value(transform(self)) ELSE Panic]
deref_mut2(self, f, x) ==
    [guard |-> TRUE,
     out |-> IF assert_same_size(2) THEN Value(transform_mut(self, f, x))
             ELSE [kind |-> "panic", val |-> self]]
deref3(self) == [guard |-> FALSE, out |-> Value(transform(self))]
deref_mut3(self, f, x) == [guard |-> FALSE, out |-> Value(transform_mut(self, f, x))]
deref4(self) == [guard |-> FALSE, out |-> Value(transform(self))]
deref_mut4(self, f, x) == [guard |-> FALSE, out |-> Value(transform_mut(self, f, x))]

\* v.f and v.f = x resolve to the Deref / DerefMut of the vector's type
deref(self) ==
    CASE Dim(self) = 2 -> deref2(self)
      [] Dim(self) = 3 -> deref3(self)
      [] Dim(self) = 4 -> deref4(self)
deref_mut(self, f, x) ==
    CASE Dim(self) = 2 -> deref_mut2(self, f, x)
      [] Dim(self) = 3 -> deref_mut3(self, f, x)
      [] Dim(self) = 4 -> deref_mut4(self, f, x)

\* Vec2::new, Vec3::new, Vec4::new, From<[T; D]> and From<tuple>; t is the
\* sequence of the components
new2(t) == [i \in 0..1 |-> t[i + 1]]
new3(t) == [i \in 0..2 |-> t[i + 1]]
new4(t) == [i \in 0..3 |-> t[i + 1]]
from_array(t) == [i \in 0..(Len(t) - 1) |-> t[i + 1]]
from_tuple2(t) == [i \in 0..1 |-> t[i + 1]]
from_tuple3(t) == new3(<<t[1], t[2], t[3]>>)
from_tuple4(t) == new4(<<t[1], t[2], t[3], t[4]>>)

-----------------------------------------------------------------------------
(* The view specification: a Vec2, Vec3 or Vec4 is constructed, then read  *)
(* and written by index and by field name, and changed by the in-place     *)
(* operators, at most MaxMut times.                                        *)

ViewDims == {2, 3, 4}
Tuples(D) == [1..D -> SmallSample]

Constructed(D, t) ==
    {<<"new", CASE D = 2 -> new2(t) [] D = 3 -> new3(t) [] D = 4 -> new4(t)>>,
     <<"from_array", from_array(t)>>,
     <<"from_tuple", CASE D = 2 -> from_tuple2(t) [] D = 3 -> from_tuple3(t)
                       [] D = 4 -> from_tuple4(t)>>}

InitView ==
    /\ overflow_checks \in BOOLEAN
    /\ \E D \in ViewDims : \E t \in Tuples(D) : \E c \in Constructed(D, t) :
          /\ a = c[2]
          /\ res = Rec(c[1], "", c[2], <<>>, 0, Value(c[2]), Value(0))
          /\ b = Splat(D, 1)
    /\ pc = "ready"
    /\ nmut = 0

\* let r = v[i]
IndexRead ==
    /\ pc = "ready"
    /\ \E i \in 0..(Dim(a) + 1) :
          LET o == index(a, i)
          IN  /\ res' = [Rec("index", "", a, <<>>, 0, o, Value(0)) EXCEPT !.idx = i]
              /\ pc' = IF o.kind = "value" THEN "done" ELSE "panicked"
    /\ UNCHANGED <<overflow_checks, a, b, nmut>>

\* v[i] = x
IndexWrite ==
    /\ pc = "ready" /\ nmut < MaxMut
    /\ \E i \in 0..(Dim(a) + 1) : \E x \in SmallSample :
          LET o == index_mut(a, i, x)
          IN  /\ res' = [Rec("index_mut", "", a, <<>>, x, o, Value(0)) EXCEPT !.idx = i]
              /\ a' = o.val
              /\ pc' = IF o.kind = "value" THEN "ready" ELSE "panicked"
    /\ nmut' = nmut + 1
    /\ UNCHANGED <<overflow_checks, b>>

\* let r = v.f
FieldRead ==
    /\ pc = "ready"
    /\ \E f \in Fields(Dim(a)) :
          LET d == deref(a)
              o == IF d.out.kind = "value" THEN Value(d.out.val[f]) ELSE d.out
          IN  /\ res' = [Rec("field", "", a, <<>>, 0, o, Value(0))
                            EXCEPT !.field = f, !.guard = d.guard]
              /\ pc' = IF o.kind = "value" THEN "done" ELSE "panicked"
    /\ UNCHANGED <<overflow_checks, a, b, nmut>>

\* v.f = x
FieldWrite ==
    /\ pc = "ready" /\ nmut < MaxMut
    /\ \E f \in Fields(Dim(a)) : \E x \in SmallSample :
          LET d == deref_mut(a, f, x)
          IN  /\ res' = [Rec("field_mut", "", a, <<>>, x, d.out, Value(0))
                            EXCEPT !.field = f, !.guard = d.guard]
              /\ a' = d.out.val
              /\ pc' = IF d.out.kind = "value" THEN "ready" ELSE "panicked"
    /\ nmut' = nmut + 1
    /\ UNCHANGED <<overflow_checks, b>>

\* an in-place operator on the vector: o.val is the receiver after the call
InPlace(op, form, rhs, k, o) ==
    /\ pc = "ready" /\ nmut < MaxMut
    /\ res' = Rec(op, form, a, rhs, k, o, Value(0))
    /\ a' = o.val
    /\ nmut' = nmut + 1
    /\ pc' = IF o.kind = "value" THEN "ready" ELSE "panicked"
    /\ UNCHANGED <<overflow_checks, b>>

ViewAddAssign == \E o \in Resolve(add_assign_r(a, b), Vecs(Dim(a))) :
                     InPlace("add_assign", "r", b, 0, o)
ViewSubAssign == \E o \in Resolve(sub_assign_r(a, b), Vecs(Dim(a))) :
                     InPlace("sub_assign", "r", b, 0, o)
ViewMulAssign == \E k \in Scalars : \E o \in Resolve(mul_assign(a, k), Vecs(Dim(a))) :
                     InPlace("mul_assign", "v", <<>>, k, o)
ViewDivAssign == \E k \in Scalars : \E o \in Resolve(div_assign(a, k), Vecs(Dim(a))) :
                     InPlace("div_assign", "v", <<>>, k, o)

NextView ==
    \/ IndexRead \/ IndexWrite
    \/ FieldRead \/ FieldWrite
    \/ ViewAddAssign \/ ViewSubAssign \/ ViewMulAssign \/ ViewDivAssign

SpecView == InitView /\ [][NextView]_vars

-----------------------------------------------------------------------------
(* The matrix specification: two row vectors are drawn, two matrices of    *)
(* the same shape are built of them, and one form of + is applied.         *)

InitMat ==
    /\ overflow_checks \in BOOLEAN
    /\ \E C \in 1..MaxCols : a \in [0..(C - 1) -> SmallSample] /\ b \in Vecs(C)
    /\ res = NoRes
    /\ pc = "ready"
    /\ nmut = 0

Mats(R) == [0..(R - 1) -> {a, b}]
MatAlts(R) == [0..(R - 1) -> Vecs(Dim(a))]

MatReturns(form, A, B, o) ==
    /\ res' = Rec("mat_add", form, A, B, 0, o, Value(0))
    /\ pc' = IF o.kind = "value" THEN "done" ELSE "panicked"
    /\ UNCHANGED <<overflow_checks, a, b, nmut>>

MatAdd_vv == pc = "ready" /\ \E R \in 1..MaxRows : \E A \in Mats(R), B \in Mats(R) :
                 \E o \in Resolve(mat_add(A, B), MatAlts(R)) : MatReturns("vv", A, B, o)
MatAdd_rv == pc = "ready" /\ \E R \in 1..MaxRows : \E A \in Mats(R), B \in Mats(R) :
                 \E o \in Resolve(mat_add_rv(A, B), MatAlts(R)) : MatReturns("rv", A, B, o)
MatAdd_vr == pc = "ready" /\ \E R \in 1..MaxRows : \E A \in Mats(R), B \in Mats(R) :
                 \E o \in Resolve(mat_add_vr(A, B), MatAlts(R)) : MatReturns("vr", A, B, o)
MatAdd_rr == pc = "ready" /\ \E R \in 1..MaxRows : \E A \in Mats(R), B \in Mats(R) :
                 \E o \in Resolve(mat_add_rr(A, B), MatAlts(R)) : MatReturns("rr", A, B, o)

NextMat == MatAdd_vv \/ MatAdd_rv \/ MatAdd_vr \/ MatAdd_rr

SpecMat == InitMat /\ [][NextMat]_vars

-----------------------------------------------------------------------------
(* Reference results, stated index by index on exact integers *)

\* what + - * of the element type make of the exact results r[i], all i
Elementwise(r) ==
    IF overflow_checks /\ \E i \in DOMAIN r : ~InRange(r[i]) THEN Panic
    ELSE Value([i \in DOMAIN r |-> Wrap(r[i])])

ExactSum(x, y) == [i \in DOMAIN x |-> x[i] + y[i]]
ExactDiff(x, y) == [i \in DOMAIN x |-> x[i] - y[i]]

\* C1: each of the four ownership forms of + and of - returns the vector of
\* a[i] + b[i] (a[i] - b[i]), and the four forms agree; &a - b is a - b, not b - a.
C1_OwnershipFormsAgree ==
    /\ res.op = "add" =>
          /\ Same(res.out, Elementwise(ExactSum(res.lhs, res.rhs)))
          /\ \A o \in {add_vv(res.lhs, res.rhs), add_vr(res.lhs, res.rhs),
                       add_rv(res.lhs, res.rhs), add_rr(res.lhs, res.rhs)} :
                 Same(res.out, o)
    /\ res.op = "sub" =>
          /\ Same(res.out, Elementwise(ExactDiff(res.lhs, res.rhs)))
          /\ \A o \in {sub_vv(res.lhs, res.rhs), sub_vr(res.lhs, res.rhs),
                       sub_rv(res.lhs, res.rhs), sub_rr(res.lhs, res.rhs)} :
                 Same(res.out, o)

\* &a - b returned a difference that b - a would not have been
C1_Witness ==
    /\ res.op = "sub" /\ res.form = "rv" /\ res.out.kind = "value"
    /\ \E i \in DOMAIN res.lhs :
          /\ res.lhs[i] # res.rhs[i]
          /\ res.out.val[i] = res.lhs[i] - res.rhs[i]
          /\ res.out.val[i] # res.rhs[i] - res.lhs[i]

-----------------------------------------------------------------------------
\* the sum of two outcomes, and the product of two elements, as outcomes
PlusO(o1, o2) ==
    IF o1.kind = "value" /\ o2.kind = "value" THEN Arith(o1.val + o2.val) ELSE Panic

\* (...((x[0]*y[0]) + (x[1]*y[1])) + ...) + (x[n]*y[n])
RECURSIVE LeftFold(_, _, _)
LeftFold(x, y, n) ==
    IF n = 0 THEN Arith(x[0] * y[0])
    ELSE PlusO(LeftFold(x, y, n - 1), Arith(x[n] * y[n]))

\* C2: each ownership form of dot returns the left-to-right fold of the
\* products, started from the product at index 0; (1,2,3).(4,5,6) = 32.
C2_DotIsLeftFold ==
    res.op = "dot" =>
        /\ Same(res.out, LeftFold(res.lhs, res.rhs, Dim(res.lhs) - 1))
        /\ \A o \in {dot_vv(res.lhs, res.rhs), dot_vr(res.lhs, res.rhs),
                     dot_rv(res.lhs, res.rhs), dot_rr(res.lhs, res.rhs)} :
               Same(res.out, o)
        /\ (res.lhs = DocA /\ res.rhs = DocB) => res.out = Value(32)

\* the documented example was computed by the borrowed form
C2_Witness ==
    /\ res.op = "dot" /\ res.form = "rr"
    /\ res.lhs = DocA /\ res.rhs = DocB
    /\ res.out = Value(4 + 10 + 18)

\* C6: after an in-place operator the receiver is what the non-mutating
\* operator returns on the receiver as it was; one panics iff the other does.
C6_InPlaceEquivalence ==
    LET same(n) == /\ n.kind = res.out.kind
                   /\ n.kind = "value" => a = n.val
    IN  /\ res.op = "add_assign" => same(add_vv(res.lhs, res.rhs))
        /\ res.op = "sub_assign" => same(sub_vv(res.lhs, res.rhs))
        /\ res.op = "mul_assign" => same(mul_v(res.lhs, res.k))
        /\ (res.op = "div_assign" /\ res.k # 0) => same(div_v(res.lhs, res.k))

\* a -= &b returned and changed a
C6_Witness ==
    /\ res.op = "sub_assign" /\ res.form = "r" /\ res.out.kind = "value"
    /\ a # res.lhs
    /\ \A i \in DOMAIN a : a[i] = res.lhs[i] - res.rhs[i]

\* C9 as stated: (v * k) / k = v for every non-zero k
C9_RoundTripAlways ==
    (res.op = "muldiv" /\ res.k # 0) => Same(res.out, Value(res.lhs))

NoProductOverflows(v, k) == \A i \in DOMAIN v : InRange(v[i] * k)

\* C9 as amended: (v * k) / k = v for every non-zero k such that no product
\* v[i] * k overflows the element type, in the owned and the borrowed form.
C9_RoundTripWithoutOverflow ==
    (res.op = "muldiv" /\ res.k # 0 /\ NoProductOverflows(res.lhs, res.k)) =>
        Same(res.out, Value(res.lhs))

\* the borrowed form took v to a different product and back
C9_Witness ==
    /\ res.op = "muldiv" /\ res.form = "r" /\ res.k = 2
    /\ NoProductOverflows(res.lhs, res.k)
    /\ res.aux.kind = "value" /\ res.aux.val # res.lhs
    /\ res.out = Value(res.lhs)

\* C10 as stated: (a + b) + c and a + (b + c) are the same outcome
C10_AssociativeAlways ==
    res.op = "assoc" => Same(res.out, res.aux)

\* C10 as amended: when both (a + b) + c and a + (b + c) return, they return
\* equal vectors, and where overflow wraps both always return.
C10_AssociativeWhenBothReturn ==
    res.op = "assoc" =>
        /\ (res.out.kind = "value" /\ res.aux.kind = "value") => res.out.val = res.aux.val
        /\ ~overflow_checks => (res.out.kind = "value" /\ res.aux.kind = "value")

\* both sides returned the same vector although a + b wrapped
C10_Witness ==
    /\ res.op = "assoc" /\ ~overflow_checks
    /\ \E i \in DOMAIN res.lhs : ~InRange(res.lhs[i] + res.rhs[i])
    /\ res.out.kind = "value" /\ res.aux.kind = "value"
    /\ res.out.val = res.aux.val

-----------------------------------------------------------------------------
\* C3: every deref and deref_mut of Vec2, Vec3 and Vec4 passes the size
\* assertion before it reinterprets the vector.
C3_EveryProjectionGuarded ==
    res.op \in {"field", "field_mut"} => res.guard

\* the field named by position j, read through the window
Field(v, j) == deref(v).out.val[FieldNames[j + 1]]

\* C4: in every state of a Vec2, Vec3 or Vec4, constructed by new, from an
\* array or from a tuple and changed by indexed writes, named writes and
\* in-place operators, v.x = v[0], v.y = v[1], v.z = v[2] and v.w = v[3].
C4_FieldsReadTheirIndex ==
    /\ deref(a).out.kind = "value"
    /\ DOMAIN deref(a).out.val = Fields(Dim(a))
    /\ \A j \in 0..(Dim(a) - 1) : Same(Value(Field(a, j)), index(a, j))
    /\ res.op = "field" => res.out = index(res.lhs, FieldPos(res.field))

\* a Vec4 of two different values, after MaxMut writes and in-place operators,
\* the last an in-place operator, read by field
C4_Witness ==
    /\ Dim(a) = 4 /\ nmut = MaxMut /\ pc = "ready"
    /\ res.op \in {"add_assign", "sub_assign", "mul_assign", "div_assign"}
    /\ a # res.lhs
    /\ a[2] # a[3]
    /\ Field(a, 2) = a[2] /\ Field(a, 3) = a[3]

\* C5: storing k in the field bound to index i makes v[i] = k and leaves every
\* other v[j] as it was; storing k in v[i] changes the field bound to i only.
C5_WritesAreAliased ==
    /\ (res.op = "field_mut" /\ res.out.kind = "value") =>
          \A j \in DOMAIN res.lhs :
              a[j] = IF j = FieldPos(res.field) THEN res.k ELSE res.lhs[j]
    /\ (res.op = "index_mut" /\ res.out.kind = "value") =>
          \A j \in DOMAIN res.lhs :
              Field(a, j) = IF j = res.idx THEN res.k ELSE Field(res.lhs, j)

\* v.z = k changed v[2] of a Vec4 and nothing else
C5_Witness ==
    /\ res.op = "field_mut" /\ res.field = "z" /\ Dim(a) = 4
    /\ res.lhs[2] # res.k /\ a[2] = res.k
    /\ \A j \in {0, 1, 3} : a[j] = res.lhs[j]
    /\ res.lhs[3] # res.k

\* C8: v[i] and v[i] = x with i >= D panic: no value is returned, the index
\* is neither clamped nor wrapped, and the vector is left as it was.
C8_OutOfBoundsPanics ==
    (res.op \in {"index", "index_mut"} /\ res.idx >= Dim(res.lhs)) =>
        /\ res.out.kind = "panic"
        /\ pc = "panicked"
        /\ a = res.lhs

\* v[D] = x panicked on a vector whose last element is not x
C8_Witness ==
    /\ res.op = "index_mut" /\ res.idx = Dim(res.lhs)
    /\ res.lhs[Dim(res.lhs) - 1] # res.k
    /\ pc = "panicked" /\ a = res.lhs

-----------------------------------------------------------------------------
\* C7: (A + B)[r][c] = A[r][c] + B[r][c] for every row r and column c, and
\* &A + B, A + &B and &A + &B return the same matrix as A + B.
C7_MatrixAddIsEntrywise ==
    res.op = "mat_add" =>
        LET A == res.lhs
            B == res.rhs
            exact(r, c) == A[r][c] + B[r][c]
            cells == {<<r, c>> : r \in DOMAIN A, c \in DOMAIN a}
        IN  /\ IF overflow_checks /\ \E rc \in cells : ~InRange(exact(rc[1], rc[2]))
               THEN res.out.kind = "panic"
               ELSE /\ res.out.kind = "value"
                    /\ DOMAIN res.out.val = DOMAIN A
                    /\ \A r \in DOMAIN A : DOMAIN res.out.val[r] = DOMAIN a
                    /\ \A rc \in cells :
                          mat_index(res.out.val, rc[1], rc[2]) = Value(Wrap(exact(rc[1], rc[2])))
            /\ \A o \in {mat_add(A, B), mat_add_rv(A, B), mat_add_vr(A, B),
                         mat_add_rr(A, B)} : Same(res.out, o)

\* &A + &B returned the entrywise sum of two different matrices of two
\* different rows
C7_Witness ==
    /\ res.op = "mat_add" /\ res.form = "rr" /\ res.out.kind = "value"
    /\ Dim(res.lhs) = 2 /\ res.lhs # res.rhs /\ res.lhs[0] # res.lhs[1]
    /\ \A r \in DOMAIN res.lhs : \A c \in DOMAIN a :
          mat_index(res.out.val, r, c) = Value(res.lhs[r][c] + res.rhs[r][c])

-----------------------------------------------------------------------------
\* C11: a + b and b + a are the same outcome (the same vector, or both panic)
\* in each of the four ownership forms, &a + b with its swapped closure
\* included, and whichever form computed a + b.
C11_AddCommutes ==
    res.op = "add" =>
        \A o \in {add_vv(res.rhs, res.lhs), add_vr(res.rhs, res.lhs),
                   add_rv(res.rhs, res.lhs), add_rr(res.rhs, res.lhs)} :
            Same(res.out, o)

\* &a + b returned, for two vectors that differ at an index where the sum
\* wrapped, what &b + a returns
C11_Witness ==
    /\ res.op = "add" /\ res.form = "rv" /\ res.out.kind = "value"
    /\ \E i \in DOMAIN res.lhs :
          /\ res.lhs[i] # res.rhs[i]
          /\ res.out.val[i] = Wrap(res.rhs[i] + res.lhs[i])
    /\ \E i \in DOMAIN res.lhs : ~InRange(res.lhs[i] + res.rhs[i])
    /\ res.out = add_rv(res.rhs, res.lhs)

-----------------------------------------------------------------------------
\* the vector of f(x[i], y[i]), all i: a panicking f(x[i], y[i]) panics the call
Pairwise(f, x, y) ==
    IF \E i \in DOMAIN x : call(f, x[i], y[i]).kind # "value" THEN Panic
    ELSE Value([i \in DOMAIN x |-> call(f, x[i], y[i]).val])

\* C12: combine(a, b, f), combine_ref(a, &b, f) and combine_both_ref(&a, &b, f)
\* return the same vector r, r[i] = f(a[i], b[i]) for every index i, the
\* receiver's element on the left of f, and leave the operands as they were.
C12_CombinePairsByIndex ==
    res.op \in {"combine", "combine_ref", "combine_both_ref"} =>
        /\ Same(res.out, Pairwise(res.form, res.lhs, res.rhs))
        /\ res.out.kind = "value" => DOMAIN res.out.val = DOMAIN res.lhs
        /\ \A o \in {combine(res.lhs, res.rhs, res.form),
                     combine_ref(res.lhs, res.rhs, res.form),
                     combine_both_ref(res.lhs, res.rhs, res.form)} :
               Same(res.out, o)
        /\ \A j \in 1..Len(res.aux.calls) :
               /\ res.aux.calls[j].x = res.lhs[res.aux.calls[j].idx]
               /\ res.aux.calls[j].y = res.rhs[res.aux.calls[j].idx]
        /\ a = res.lhs /\ b = res.rhs

\* combine_ref returned a[i] - b[i] at every index of two vectors of MaxDim
\* elements, at one of which b[i] - a[i] is another value
C12_Witness ==
    /\ res.op = "combine_ref" /\ res.form = "sub" /\ res.out.kind = "value"
    /\ Dim(res.lhs) = MaxDim
    /\ \A i \in DOMAIN res.lhs : res.out.val[i] = res.lhs[i] - res.rhs[i]
    /\ \E i \in DOMAIN res.lhs : res.out.val[i] # res.rhs[i] - res.lhs[i]
    /\ a = res.lhs /\ b = res.rhs

-----------------------------------------------------------------------------
\* the matrix of R rows, each the vector v
Rows(R, v) == [r \in 0..(R - 1) |-> v]

\* C13: with D >= 1, no call of combine, combine_ref, combine_both_ref,
\* combine_assign, combine_assign_ref, Mat::add or dot reaches undefined
\* behaviour: the paired iterator yields exactly D items, a call that returns
\* has taken exactly D of them (one per call of f) and no call takes more;
\* on every pair of operands drawn, the reduction of dot is taken over D >= 1
\* products and Mat::add pairs exactly as many rows as it collects.
C13_UncheckedUnwrapIsSafe ==
    /\ Dim(a) >= 1 /\ Dim(b) = Dim(a)
    /\ res.op \in {"combine", "combine_ref", "combine_both_ref"} =>
          /\ res.aux.raw # "ub"
          /\ Len(zip(into_iter(res.lhs), into_iter(res.rhs))) = Dim(res.lhs)
          /\ Len(res.aux.calls) <= Dim(res.lhs)
          /\ res.out.kind = "value" => Len(res.aux.calls) = Dim(res.lhs)
    /\ res.op \in {"combine_assign", "combine_assign_ref"} =>
          /\ res.aux.raw # "ub"
          /\ Len(into_iter(res.rhs)) = Dim(res.lhs)
          /\ Len(res.aux.calls) <= Dim(res.lhs)
          /\ res.out.kind = "value" => Len(res.aux.calls) = Dim(res.lhs)
    /\ pc = "ready" =>
          /\ \A f \in AssignFns :
                iter_mut_loop(a, into_iter(b), f, 0, <<>>).kind # "ub"
          /\ Len(map(zip(into_iter(a), into_iter(b)), "mul")) = Dim(a)
          /\ \A o \in {dot_vv(a, b), dot_vr(a, b), dot_rv(a, b), dot_rr(a, b)} :
                o.kind # "ub"
          /\ \A R \in 1..MaxRows :
                /\ Len(zip(into_iter(Rows(R, a)), into_iter(Rows(R, b)))) = R
                /\ mat_add(Rows(R, a), Rows(R, b)).kind # "ub"

\* combine_assign_ref returned on vectors of MaxDim elements after exactly
\* MaxDim calls of f, each on an item that was present
C13_Witness ==
    /\ res.op = "combine_assign_ref" /\ res.out.kind = "value"
    /\ Dim(res.lhs) = MaxDim
    /\ res.aux.raw = "value"
    /\ Len(res.aux.calls) = MaxDim
    /\ a # res.lhs

-----------------------------------------------------------------------------
\* the vector of f(x[i], k), all i, for the scalar k
Broadcast(f, x, k) == Pairwise(f, x, [i \in DOMAIN x |-> k])

\* C14: combine_scalar(v, k, f), combine_scalar_ref(&v, k, f) and
\* combine_assign_scalar(&mut v, k, f) call f once per element, on (v[i], k)
\* with the same k at every index, D calls in a call that returns; element i
\* of the result, or of the receiver afterwards, is f(v[i], k), and the owned
\* and the borrowed form return the same vector.
C14_ScalarBroadcast ==
    /\ res.op \in {"combine_scalar", "combine_scalar_ref", "combine_assign_scalar"} =>
          /\ Same(res.out, Broadcast(res.form, res.lhs, res.k))
          /\ res.out.kind = "value" => Len(res.aux.calls) = Dim(res.lhs)
          /\ \A j \in 1..Len(res.aux.calls) :
                res.aux.calls[j] = [idx |-> j - 1, x |-> res.lhs[j - 1], y |-> res.k]
    /\ res.op \in {"combine_scalar", "combine_scalar_ref"} =>
          /\ Same(res.out, combine_scalar(res.lhs, res.k, res.form))
          /\ Same(res.out, combine_scalar_ref(res.lhs, res.k, res.form))
          /\ a = res.lhs
    /\ (res.op = "combine_assign_scalar" /\ res.out.kind = "value") =>
          \A i \in DOMAIN res.lhs : Value(a[i]) = call(res.form, res.lhs[i], res.k)

\* combine_assign_scalar divided each of MaxDim elements, not all of them
\* equal, by the same scalar, which is not 1
C14_Witness ==
    /\ res.op = "combine_assign_scalar" /\ res.form = "div_assign"
    /\ res.out.kind = "value" /\ res.k = 2
    /\ Dim(res.lhs) = MaxDim /\ Len(res.aux.calls) = MaxDim
    /\ \E i, j \in DOMAIN res.lhs : res.lhs[i] # res.lhs[j]
    /\ \A i \in DOMAIN res.lhs : a[i] = TruncDiv(res.lhs[i], 2)
    /\ a # res.lhs

-----------------------------------------------------------------------------
\* the indices of a sequence of calls, in the order of the calls
Order(calls) == [j \in 1..Len(calls) |-> calls[j].idx]

\* C15: combine_assign and combine_assign_ref call f on (self[i], other[i])
\* for i = 0, 1, .., D-1 in this order, each index once, as combine does; a
\* call of f that panics ends the loop, and the indices after it are not
\* reached.  Element i of the receiver is changed by the call for index i
\* only, and other is left as it was.
C15_InPlaceAscendingOrder ==
    res.op \in {"combine_assign", "combine_assign_ref"} =>
        LET calls == res.aux.calls
            n == Len(calls)
            f == res.form
            r == [i \in DOMAIN res.lhs |-> call(f, res.lhs[i], res.rhs[i])]
        IN  /\ \A j \in 1..n :
                  calls[j] = [idx |-> j - 1, x |-> res.lhs[j - 1], y |-> res.rhs[j - 1]]
            /\ \A j \in 1..(n - 1) : r[j - 1].kind = "value"
            /\ IF res.out.kind = "value" THEN n = Dim(res.lhs)
               ELSE n >= 1 /\ r[n - 1].kind = "panic"
            /\ Order(calls) = Order(combine_calls(res.lhs, res.rhs, f))
            /\ \A i \in DOMAIN res.lhs :
                  a[i] = IF i < n /\ r[i].kind = "value" THEN r[i].val ELSE res.lhs[i]
            /\ b = res.rhs
            /\ LET loop == iter_mut_loop(res.lhs, into_iter(res.rhs), f, 0, <<>>)
               IN  loop.kind = res.out.kind /\ loop.val = a /\ loop.calls = calls

\* combine_assign_ref panicked in the call for the last index of MaxDim, after
\* it had changed every element before it
C15_Witness ==
    /\ res.op = "combine_assign_ref" /\ res.out.kind = "panic"
    /\ Dim(res.lhs) = MaxDim
    /\ Order(res.aux.calls) = [j \in 1..MaxDim |-> j - 1]
    /\ \A i \in 0..(MaxDim - 2) : a[i] # res.lhs[i]
    /\ a[MaxDim - 1] = res.lhs[MaxDim - 1]
    /\ b = res.rhs

====
